---------------------------- MODULE Spec2Model ----------------------------
(***************************************************************************)
(* A model of django_squash/management/commands/squash_migrations.py:      *)
(* the operation classifier, the squash phases of the autodetector, the    *)
(* command's handle() and the replacement migration writer.                *)
(*                                                                         *)
(* Python strings are TLA+ strings; Python objects that the code mutates   *)
(* or compares by identity (operations, functions, new Migration objects)  *)
(* live in heaps indexed by object references.                             *)
(***************************************************************************)
EXTENDS Integers, Sequences, FiniteSets, TLC

(***************************************************************************)
(* Bounds of the model.                                                    *)
(***************************************************************************)
\* the diff engine returns at most this many new records for one app
MaxNew == 2
\* number of command invocations in one behaviour
MaxRuns == 2

(***************************************************************************)
(* Python str primitives.                                                  *)
(***************************************************************************)
Ch(s, i) == SubSeq(s, i, i)

\* the characters of the model's strings, in code point order
Alphabet == "\n #,.0123456789ADEHLMPRSTU_abcdefghijklmnopqrstuvwxyz"

\* the rank of each character in that order
RankOf == [c \in {Ch(Alphabet, i) : i \in 1..Len(Alphabet)} |->
              CHOOSE i \in 1..Len(Alphabet) : Ch(Alphabet, i) = c]

Rank(c) == RankOf[c]

Min2(a, b) == IF a < b THEN a ELSE b

RECURSIVE FirstDiff(_, _, _)
\* the first index from i on where s and t differ, 0 when one is a prefix
\* of the other
FirstDiff(s, t, i) ==
    IF i > Len(s) \/ i > Len(t) THEN 0
    ELSE IF Ch(s, i) # Ch(t, i) THEN i
    ELSE FirstDiff(s, t, i + 1)

\* s < t for Python strings: the first differing character decides, a
\* proper prefix is smaller
StrLess(s, t) ==
    IF s = t THEN FALSE
    ELSE LET d == FirstDiff(s, t, 1)
         IN IF d = 0 THEN Len(s) < Len(t)
            ELSE Rank(Ch(s, d)) < Rank(Ch(t, d))

Digits == "0123456789"

IsDigit(c) == \E d \in 1..Len(Digits) : Ch(Digits, d) = c

DigitVal(c) == (CHOOSE d \in 1..Len(Digits) : Ch(Digits, d) = c) - 1

RECURSIVE Decimal(_)
\* str(n) for n >= 0
Decimal(n) ==
    IF n < 10 THEN Ch(Digits, n + 1)
    ELSE Decimal(n \div 10) \o Ch(Digits, (n % 10) + 1)

RECURSIVE ZeroPad(_, _)
ZeroPad(s, width) == IF Len(s) >= width THEN s ELSE ZeroPad("0" \o s, width)

\* "%04i" % n: at least four digits, more when n needs them
Format04i(n) == ZeroPad(Decimal(n), 4)

RECURSIVE IntOf(_)
\* int(s) for a string of decimal digits
IntOf(s) ==
    IF Len(s) = 0 THEN 0
    ELSE 10 * IntOf(SubSeq(s, 1, Len(s) - 1)) + DigitVal(Ch(s, Len(s)))

\* s[:n]
Prefix(s, n) == SubSeq(s, 1, Min2(n, Len(s)))

StartsWith(s, p) == Len(s) >= Len(p) /\ SubSeq(s, 1, Len(p)) = p

\* s.find(sub, from): the first index >= from where sub occurs, 0 if none
Find(s, sub, from) ==
    LET hits == {i \in from..(Len(s) - Len(sub) + 1) :
                    SubSeq(s, i, i + Len(sub) - 1) = sub}
    IN IF hits = {} THEN 0 ELSE CHOOSE i \in hits : \A j \in hits : i <= j

RECURSIVE Split(_, _)
\* s.split(sep) for a non-empty separator
Split(s, sep) ==
    LET i == Find(s, sep, 1)
    IN IF i = 0 THEN <<s>>
       ELSE <<SubSeq(s, 1, i - 1)>> \o Split(SubSeq(s, i + Len(sep), Len(s)), sep)

RECURSIVE Replace(_, _, _)
\* s.replace(old, new) for a non-empty old
Replace(s, old, new) ==
    LET i == Find(s, old, 1)
    IN IF i = 0 THEN s
       ELSE SubSeq(s, 1, i - 1) \o new
            \o Replace(SubSeq(s, i + Len(old), Len(s)), old, new)

IsSpace(c) == c \in {" ", "\n"}

RECURSIVE LStrip(_)
LStrip(s) == IF Len(s) > 0 /\ IsSpace(Ch(s, 1)) THEN LStrip(Tail(s)) ELSE s

RECURSIVE RStrip(_)
RStrip(s) ==
    IF Len(s) > 0 /\ IsSpace(Ch(s, Len(s)))
    THEN RStrip(SubSeq(s, 1, Len(s) - 1)) ELSE s

\* s.strip()
Strip(s) == RStrip(LStrip(s))

RECURSIVE Words(_)
\* s.split(): the maximal runs of non-whitespace characters
Words(s) ==
    LET t == LStrip(s)
        ends == {i \in 1..Len(t) : IsSpace(Ch(t, i))}
        e == IF ends = {} THEN Len(t) + 1
             ELSE CHOOSE i \in ends : \A j \in ends : i <= j
    IN IF Len(t) = 0 THEN <<>>
       ELSE <<SubSeq(t, 1, e - 1)>> \o Words(SubSeq(t, e, Len(t)))

RECURSIVE Join(_, _)
\* sep.join(lines)
Join(sep, lines) ==
    IF Len(lines) = 0 THEN ""
    ELSE IF Len(lines) = 1 THEN lines[1]
    ELSE lines[1] \o sep \o Join(sep, Tail(lines))

Range(s) == {s[i] : i \in DOMAIN s}

(***************************************************************************)
(* Identities and their order.                                             *)
(***************************************************************************)
\* (app_label, name) tuples compare lexicographically
IdLess(a, b) == StrLess(a[1], b[1]) \/ (a[1] = b[1] /\ StrLess(a[2], b[2]))

RECURSIVE SortedIds(_)
\* sorted(S) for a set of identities
SortedIds(S) ==
    IF S = {} THEN <<>>
    ELSE LET m == CHOOSE a \in S : \A b \in S \ {a} : IdLess(a, b)
         IN <<m>> \o SortedIds(S \ {m})

\* the __module__ of what a migration file defines
ModuleName(id) == id[1] \o ".migrations." \o id[2]

(***************************************************************************)
(* Migration files on disk.  A file holds values: its operations as        *)
(* written in the file, its dependencies, its replaces list and the        *)
(* top-level statements of its source.                                     *)
(***************************************************************************)
Apps == <<"app", "lib">>

Schema(kind) ==
    [kind |-> kind, elidable |-> FALSE, fn |-> "",
     state_operations |-> <<>>, database_operations |-> <<>>]

\* RunPython(fn, elidable=e) or RunSQL(..., elidable=e)
Raw(kind, fn, e) ==
    [kind |-> kind, elidable |-> e, fn |-> fn,
     state_operations |-> <<>>, database_operations |-> <<>>]

Separate(state, db, e) ==
    [kind |-> "SeparateDatabaseAndState", elidable |-> e, fn |-> "",
     state_operations |-> state, database_operations |-> db]

ImportFrom(module, names) == [type |-> "ImportFrom", module |-> module, names |-> names]

Import(names) == [type |-> "Import", module |-> "", names |-> names]

ClassDef == [type |-> "ClassDef", module |-> "", names |-> <<>>]

RawKinds == {"RunPython", "RunSQL"}

\* the elidable flags and raw operation kinds a history is drawn from
Flavours ==
    [e1 : BOOLEAN, e2 : BOOLEAN, e5 : BOOLEAN, e6 : BOOLEAN,
     k1 : RawKinds, k5 : RawKinds]

FnOf(kind, fn) == IF kind = "RunPython" THEN fn ELSE ""

\* app/0001_initial
FileInitial ==
    [operations |-> <<Schema("CreateModel")>>,
     dependencies |-> <<>>,
     replaces |-> <<>>,
     source |-> <<ImportFrom("django.db", <<"migrations", "models">>), ClassDef>>]

\* app/0002_add_field: a top-level raw operation, then a composite whose
\* state list holds a schema operation and a nested composite with a
\* RunPython, and whose database list holds a raw operation
FileAddField(f) ==
    [operations |->
        <<Raw(f.k1, FnOf(f.k1, "populate_default"), f.e1),
          Separate(<<Schema("AddField"),
                     Separate(<<Raw("RunPython", "backfill", f.e6)>>, <<>>, FALSE)>>,
                   <<Raw(f.k5, FnOf(f.k5, "reindex"), f.e5)>>,
                   f.e2)>>,
     dependencies |-> << <<"app", "0001_initial">> >>,
     replaces |-> <<>>,
     source |-> <<ImportFrom("__future__", <<"unicode_literals">>),
                  Import(<<"datetime">>),
                  ImportFrom("django.db", <<"migrations">>),
                  ClassDef>>]

\* lib/9999_legacy
FileLegacy ==
    [operations |-> <<Schema("CreateModel")>>,
     dependencies |-> <<>>,
     replaces |-> <<>>,
     source |-> <<ImportFrom("django.db", <<"migrations", "models">>), ClassDef>>]

AppHistories == {0, 1, 2}

LibHistories == {0, 1}

\* the files of a project whose app has the first n records and whose lib
\* has its record when m = 1
HistoryFiles(f, n, m) ==
    LET ids == (IF n >= 1 THEN {<<"app", "0001_initial">>} ELSE {})
               \cup (IF n >= 2 THEN {<<"app", "0002_add_field">>} ELSE {})
               \cup (IF m >= 1 THEN {<<"lib", "9999_legacy">>} ELSE {})
    IN [id \in ids |->
          IF id = <<"app", "0001_initial">> THEN FileInitial
          ELSE IF id = <<"app", "0002_add_field">> THEN FileAddField(f)
          ELSE FileLegacy]

(***************************************************************************)
(* Loading: MigrationLoader(None, ignore_no_migrations=True) imports every *)
(* file, which creates the operation and function objects, and builds the  *)
(* graph.  A heap h is [ops, funcs]: sequences of objects, an object's     *)
(* reference being its index.                                              *)
(***************************************************************************)
EmptyHeap == [ops |-> <<>>, funcs |-> <<>>]

RECURSIVE LoadOps(_, _, _)
RECURSIVE LoadOp(_, _, _)
\* the objects of one operation of a file of module mod: [h, id]
LoadOp(v, mod, h) ==
    IF v.kind = "SeparateDatabaseAndState"
    THEN LET s == LoadOps(v.state_operations, mod, h)
             d == LoadOps(v.database_operations, mod, s.h)
             obj == [kind |-> v.kind, elidable |-> v.elidable, code |-> 0,
                     state_operations |-> s.ids, database_operations |-> d.ids]
         IN [h |-> [d.h EXCEPT !.ops = Append(@, obj)], id |-> Len(d.h.ops) + 1]
    ELSE IF v.kind = "RunPython"
    THEN LET fun == [name |-> v.fn, module |-> mod]
             obj == [kind |-> v.kind, elidable |-> v.elidable,
                     code |-> Len(h.funcs) + 1,
                     state_operations |-> <<>>, database_operations |-> <<>>]
         IN [h |-> [ops |-> Append(h.ops, obj), funcs |-> Append(h.funcs, fun)],
             id |-> Len(h.ops) + 1]
    ELSE LET obj == [kind |-> v.kind, elidable |-> v.elidable, code |-> 0,
                     state_operations |-> <<>>, database_operations |-> <<>>]
         IN [h |-> [h EXCEPT !.ops = Append(@, obj)], id |-> Len(h.ops) + 1]

\* the objects of a list of operations: [h, ids]
LoadOps(vals, mod, h) ==
    IF Len(vals) = 0 THEN [h |-> h, ids |-> <<>>]
    ELSE LET first == LoadOp(vals[1], mod, h)
             rest == LoadOps(Tail(vals), mod, first.h)
         IN [h |-> rest.h, ids |-> <<first.id>> \o rest.ids]

RECURSIVE LoadFiles(_, _, _)
\* loader.disk_migrations: every file's Migration, [h, disk]
LoadFiles(fs, todo, acc) ==
    IF Len(todo) = 0 THEN acc
    ELSE LET id == todo[1]
             l == LoadOps(fs[id].operations, ModuleName(id), acc.h)
             m == [operations |-> l.ids, module |-> ModuleName(id)]
         IN LoadFiles(fs, Tail(todo),
                      [h |-> l.h, disk |-> acc.disk @@ (id :> m)])

DiskMigrations(fs) ==
    LoadFiles(fs, SortedIds(DOMAIN fs), [h |-> EmptyHeap, disk |-> <<>>])

\* loader.graph.node_map: with no database connection no migration counts
\* as applied, so every replacing migration is used and the nodes it
\* replaces are removed
GraphNodes(fs) ==
    DOMAIN fs \ UNION {Range(fs[id].replaces) : id \in DOMAIN fs}

\* the graph is rejected when a node depends on itself
GraphIsCyclic(fs) ==
    \E id \in DOMAIN fs : id \in Range(fs[id].dependencies)

(***************************************************************************)
(* all_custom_operations, get_imports, copy_func.                          *)
(***************************************************************************)
RECURSIVE state_custom_operations(_, _)
\* a generator that leaves the database_operations of a
\* SeparateDatabaseAndState aside
state_custom_operations(ops, operations) ==
    IF Len(operations) = 0 THEN <<>>
    ELSE LET operation == operations[1]
             o == ops[operation]
             here ==
                 IF o.elidable THEN <<>>
                 ELSE IF o.kind \in {"RunSQL", "RunPython"} THEN <<operation>>
                 ELSE IF o.kind = "SeparateDatabaseAndState"
                 THEN state_custom_operations(ops, o.state_operations)
                 ELSE <<>>
         IN here \o state_custom_operations(ops, Tail(operations))

RECURSIVE all_custom_operations(_, _)
\* the sequence the generator yields for the list `operations` of
\* references into the operation heap `ops`
all_custom_operations(ops, operations) ==
    IF Len(operations) = 0 THEN <<>>
    ELSE LET operation == operations[1]
             o == ops[operation]
             here ==
                 IF o.elidable THEN <<>>
                 ELSE IF o.kind \in {"RunSQL", "RunPython"} THEN <<operation>>
                 ELSE IF o.kind = "SeparateDatabaseAndState"
                 THEN all_custom_operations(ops, o.state_operations)
                      \o all_custom_operations(ops, o.database_operations)
                 ELSE <<>>
         IN here \o all_custom_operations(ops, Tail(operations))

RECURSIVE get_imports(_)
\* the import lines of a module, from the top-level statements of its source
get_imports(source) ==
    IF Len(source) = 0 THEN <<>>
    ELSE LET node == source[1]
             here ==
                 IF node.type = "Import"
                 THEN [i \in 1..Len(node.names) |-> "import " \o node.names[i]]
                 ELSE IF node.type = "ImportFrom"
                 THEN IF Find(node.module, "__future__", 1) = 0
                      THEN <<"from " \o node.module \o " import "
                             \o Join(", ", node.names)>>
                      ELSE <<>>
                 ELSE <<>>
         IN here \o get_imports(Tail(source))

\* a new function object with the code, globals and name of f; its
\* __module__ is the __name__ of those globals
copy_func(f) == [name |-> f.name, module |-> f.module]

Sentinel == "DELETEMEPLEASE"

(***************************************************************************)
(* The diff engine (MigrationAutodetector of django): what it may return   *)
(* for the project, whatever the files on disk hold.  A new Migration is   *)
(* referred to by <<app, position>>.                                       *)
(***************************************************************************)
KeyOrders == {<<>>, <<"app">>, <<"lib">>, <<"app", "lib">>, <<"lib", "app">>}

\* keys: the apps of the mapping in dict order; n: the number of records
\* of each; cross: app's first record depends on lib's last; swappable:
\* the first record depends on a swappable setting
EngineChoices ==
    {e \in [keys : KeyOrders, n : [Range(Apps) -> 1..MaxNew],
            cross : BOOLEAN, swappable : BOOLEAN] :
        /\ \A a \in Range(Apps) \ Range(e.keys) : e.n[a] = 1
        /\ e.cross => e.keys = <<"app", "lib">>
        /\ e.swappable => (e.keys = <<"app">> /\ e.n["app"] = 1)}

AutoName(i) == "auto_" \o Decimal(i)

\* the position of app a in the dict order
KeyIndex(keys, a) == CHOOSE k \in 1..Len(keys) : keys[k] = a

\* the reference of the CreateModel object of record i of app a, engine
\* objects being created after the `base` loaded ones
EngineOp(e, base, a, i) ==
    LET before == {k \in 1..Len(e.keys) : k < KeyIndex(e.keys, a)}
        Count[S \in SUBSET before] ==
            IF S = {} THEN 0
            ELSE LET k == CHOOSE k \in S : TRUE
                 IN e.n[e.keys[k]] + Count[S \ {k}]
    IN base + Count[before] + i

\* the migrations of MigrationAutodetector._detect_changes: named auto_i,
\* chained within an app, dependencies as (app_label, name) tuples
EngineMigrations(e, base) ==
    [a \in Range(e.keys) |->
        [i \in 1..e.n[a] |->
            [app_label |-> a,
             name |-> AutoName(i),
             operations |-> <<EngineOp(e, base, a, i)>>,
             dependencies |->
                 (IF i > 1 THEN << <<a, AutoName(i - 1)>> >> ELSE <<>>)
                 \o (IF e.cross /\ a = "app" /\ i = 1
                     THEN << <<"lib", AutoName(e.n["lib"])>> >> ELSE <<>>)
                 \o (IF e.swappable /\ a = e.keys[1] /\ i = 1
                     THEN << <<"__setting__", "AUTH_USER_MODEL">> >> ELSE <<>>),
             replaces |-> <<>>,
             extra_imports |-> <<>>]]]

RECURSIVE EngineObjects(_, _)
\* the operation heap with the engine's CreateModel objects appended
EngineObjects(ops, count) ==
    IF count = 0 THEN ops
    ELSE EngineObjects(
            Append(ops, [kind |-> "CreateModel", elidable |-> FALSE, code |-> 0,
                         state_operations |-> <<>>, database_operations |-> <<>>]),
            count - 1)

RECURSIVE SumOver(_, _)
SumOver(keys, n) == IF Len(keys) = 0 THEN 0 ELSE n[keys[1]] + SumOver(Tail(keys), n)

\* every new Migration of a mapping, as references
Refs(migrations) ==
    UNION {{<<a, i>> : i \in 1..Len(migrations[a])} : a \in DOMAIN migrations}

\* tuple(migration) of the Migration adapter: its current identity
Identity(migrations, ref) == <<ref[1], migrations[ref[1]][ref[2]].name>>

(***************************************************************************)
(* SquashMigrationAutodetector.                                            *)
(***************************************************************************)
\* _detect_changes: the second pass looks every dependency tuple up among
\* the new migrations; a tuple that names none of them is a KeyError
DetectChanges(migrations) ==
    LET by_name(dep) == {r \in Refs(migrations) : Identity(migrations, r) = dep}
        deps == UNION {Range(migrations[r[1]][r[2]].dependencies) :
                          r \in Refs(migrations)}
    IN IF \E dep \in deps : by_name(dep) = {}
       THEN [error |-> TRUE, migrations |-> migrations]
       ELSE [error |-> FALSE,
             migrations |->
                [a \in DOMAIN migrations |->
                    [i \in 1..Len(migrations[a]) |->
                        [migrations[a][i] EXCEPT !.dependencies =
                            [k \in 1..Len(@) |-> CHOOSE r \in by_name(@[k]) : TRUE]]]]]

\* current_counters_by_app of rename_migrations, 0 for an app without nodes
CurrentCounters(graph) ==
    [a \in Range(Apps) |->
        LET numbers == {IntOf(Prefix(id[2], 4)) : id \in {g \in graph : g[1] = a}}
        IN IF numbers = {} THEN 0
           ELSE CHOOSE m \in numbers : \A k \in numbers : k <= m]

\* rename_migrations
rename_migrations(graph, migrations, migration_name) ==
    [a \in DOMAIN migrations |->
        [i \in 1..Len(migrations[a]) |->
            LET next_number == CurrentCounters(graph)[a] + 1
            IN [migrations[a][i] EXCEPT !.name =
                    Format04i(next_number) \o "_"
                    \o (IF migration_name = "" THEN "squashed" ELSE migration_name)]]]

\* a replacement that takes the nodes of every app
replace_with_all_nodes(graph, migrations) ==
    [a \in DOMAIN migrations |->
        [i \in 1..Len(migrations[a]) |->
            [migrations[a][i] EXCEPT !.replaces = SortedIds(graph)]]]

\* replace_current_migrations
replace_current_migrations(graph, migrations) ==
    [a \in DOMAIN migrations |->
        [i \in 1..Len(migrations[a]) |->
            [migrations[a][i] EXCEPT !.replaces =
                SortedIds({g \in graph : g[1] = a})]]]

RECURSIVE Concat(_)
Concat(seqs) == IF Len(seqs) = 0 THEN <<>> ELSE seqs[1] \o Concat(Tail(seqs))

\* replacing_migrations_by_app[app]: the replaces lists of all new
\* records of the app, chained
ReplacingMigrations(migrations, a) ==
    Concat([i \in 1..Len(migrations[a]) |-> migrations[a][i].replaces])

RECURSIVE RescueOperations(_, _, _)
\* the inner loop of add_non_elidables over the operations yielded:
\* reading operation.code raises AttributeError on a RunSQL, which has no
\* such attribute; [h, operations, error]
RescueOperations(h, todo, done) ==
    IF Len(todo) = 0 THEN [h |-> h, operations |-> done, error |-> FALSE]
    ELSE LET operation == todo[1]
         IN IF h.ops[operation].kind # "RunPython"
            THEN [h |-> h, operations |-> done, error |-> TRUE]
            ELSE LET copy == [copy_func(h.funcs[h.ops[operation].code])
                                 EXCEPT !.module = Sentinel]
                     h2 == [ops |-> [h.ops EXCEPT ![operation].code = Len(h.funcs) + 1],
                            funcs |-> Append(h.funcs, copy)]
                 IN RescueOperations(h2, Tail(todo), Append(done, operation))

RECURSIVE add_non_elidables(_, _, _, _, _)
\* add_non_elidables, app by app in dict order; [h, migrations, error]
add_non_elidables(fs, disk, h, migrations, keys) ==
    IF Len(keys) = 0 THEN [h |-> h, migrations |-> migrations, error |-> FALSE]
    ELSE LET a == keys[1]
             replacing == ReplacingMigrations(migrations, a)
             imports == Concat([k \in 1..Len(replacing) |->
                                   get_imports(fs[replacing[k]].source)])
             yielded == Concat([k \in 1..Len(replacing) |->
                                   all_custom_operations(h.ops, disk[replacing[k]].operations)])
             r == RescueOperations(h, yielded, <<>>)
             last == Len(migrations[a])
             appended ==
                 [migrations EXCEPT
                     ![a][last].operations = @ \o r.operations,
                     ![a][last].extra_imports = imports]
         IN IF r.error
            THEN [h |-> r.h, migrations |-> migrations, error |-> TRUE]
            ELSE add_non_elidables(fs, disk, r.h, appended, Tail(keys))

\* squash, after the diff phase: the three phases in order
squash(fs, graph, disk, h, migrations, keys, migration_name) ==
    add_non_elidables(fs, disk, h,
        replace_current_migrations(graph,
            rename_migrations(graph, migrations, migration_name)),
        keys)

(***************************************************************************)
(* Command.                                                                *)
(***************************************************************************)
RECURSIVE OperationValues(_, _)
\* the operations of a record as the writer puts them in a file: a
\* RunPython refers to its function by name, the function's source being
\* copied into the file
OperationValues(h, operations) ==
    [k \in 1..Len(operations) |->
        LET o == h.ops[operations[k]]
        IN [kind |-> o.kind, elidable |-> o.elidable,
            fn |-> IF o.code = 0 THEN "" ELSE h.funcs[o.code].name,
            state_operations |-> OperationValues(h, o.state_operations),
            database_operations |-> OperationValues(h, o.database_operations)]]

\* the file MigrationWriter(migration).as_string() writes
FileOf(h, migrations, ref) ==
    LET m == migrations[ref[1]][ref[2]]
    IN [operations |-> OperationValues(h, m.operations),
        dependencies |-> [k \in 1..Len(m.dependencies) |->
                             Identity(migrations, m.dependencies[k])],
        replaces |-> m.replaces,
        source |-> <<ImportFrom("django.db", <<"migrations", "models">>), ClassDef>>]

\* the references of the new records in the order write_migration_files
\* visits them
RECURSIVE WriteOrder(_, _)
WriteOrder(migrations, keys) ==
    IF Len(keys) = 0 THEN <<>>
    ELSE [i \in 1..Len(migrations[keys[1]]) |-> <<keys[1], i>>]
         \o WriteOrder(migrations, Tail(keys))

RECURSIVE write_migration_files(_, _, _, _)
\* write_migration_files: open(writer.path, "w") per record, a later
\* record of the same path overwriting an earlier one
write_migration_files(fs, h, migrations, todo) ==
    IF Len(todo) = 0 THEN fs
    ELSE LET id == Identity(migrations, todo[1])
             file == FileOf(h, migrations, todo[1])
             others == [i \in DOMAIN fs \ {id} |-> fs[i]]
         IN write_migration_files(others @@ (id :> file), h, migrations, Tail(todo))

\* replacing_migrations of handle
ReplacingCount(migrations) ==
    LET Sum[S \in SUBSET Refs(migrations)] ==
            IF S = {} THEN 0
            ELSE LET r == CHOOSE r \in S : TRUE
                 IN Len(migrations[r[1]][r[2]].replaces) + Sum[S \ {r}]
    IN Sum[Refs(migrations)]

\* a test that is content with any record at all
HasRecords(migrations) == Refs(migrations) # {}

\* whether handle goes on to write_migration_files
ReachesWrite(migrations) == ReplacingCount(migrations) # 0

VARIABLES
    files,       \* the migration files on disk: identity -> file
    made_dirs,   \* the apps whose migrations directory handle has made
    graph,       \* loader.graph.node_map of the latest run
    disk,        \* loader.disk_migrations of the latest run
    heap,        \* the operation and function objects of the latest run
    changes,     \* the mapping of the latest run: app -> new Migrations
    keys,        \* the dict order of that mapping
    outcome,     \* how the latest run ended
    counters,    \* current_counters_by_app of the latest run
    runs,        \* the number of runs so far
    scanned,     \* the list last given to all_custom_operations
    yielded,     \* what it yielded
    writer       \* the MigrationWriter last used

vars == <<files, made_dirs, graph, disk, heap, changes, keys, outcome,
          counters, runs, scanned, yielded, writer>>

NoWriter == [used |-> FALSE, needs_manual_porting |-> FALSE, required |-> {},
             imports |-> "", functions |-> <<>>]

(***************************************************************************)
(* ReplacementMigrationWriter and MigrationWriter.                         *)
(***************************************************************************)
\* re.match(r"^import (.*)\.\d+[^\s]*$", line)
MatchesMigrationImport(line) ==
    /\ StartsWith(line, "import ")
    /\ \E p \in 8..(Len(line) - 1) :
          /\ Ch(line, p) = "."
          /\ IsDigit(Ch(line, p + 1))
          /\ \A j \in 8..(p - 1) : Ch(line, j) # "\n"
          /\ \A j \in (p + 2)..Len(line) :
                \/ ~IsSpace(Ch(line, j))
                \/ (j = Len(line) /\ Ch(line, j) = "\n")

\* line.split("import")[1].strip()
MigrationImportOf(line) == Strip(Split(line, "import")[2])

\* the sort key of an import line: i.split()[1]
ImportKey(line) == Words(line)[2]

RECURSIVE SortedImports(_)
\* the lists sorted(imports, key=lambda i: i.split()[1]) may return:
\* lines of equal key are left in the iteration order of the set, which
\* is any order
SortedImports(S) ==
    IF S = {} THEN {<<>>}
    ELSE UNION {{<<m>> \o rest : rest \in SortedImports(S \ {m})} :
                   m \in {a \in S : \A b \in S : ~StrLess(ImportKey(b), ImportKey(a))}}

RECURSIVE SortedStrings(_)
\* sorted(S) for a set of strings
SortedStrings(S) ==
    IF S = {} THEN <<>>
    ELSE LET m == CHOOSE a \in S : \A b \in S : ~StrLess(b, a)
         IN <<m>> \o SortedStrings(S \ {m})

ManualPortingHeader ==
    "\n\n# Functions from the following migrations need manual "
    \o "copying.\n# Move them and any dependencies into this file, "
    \o "then update the\n# RunPython operations to refer to the local "
    \o "versions:\n# "

\* lines 127-135 of get_kwargs: the lines taken out of the imports
MigrationImportLines(imports) == {line \in imports : MatchesMigrationImport(line)}

\* lines 136-142: the models import merged into the migrations import
MergedImports(imports) ==
    IF "from django.db import models" \in imports
    THEN (imports \ {"from django.db import models"})
         \cup {"from django.db import migrations, models"}
    ELSE imports \cup {"from django.db import migrations"}

\* items["imports"] of ReplacementMigrationWriter.get_kwargs for one of
\* the orders sorted() may give
ImportsBlock(sorted_imports, migration_imports) ==
    Join("\n", sorted_imports) \o "\n"
    \o (IF migration_imports = {} THEN ""
        ELSE ManualPortingHeader
             \o Join("\n# ", SortedStrings(migration_imports)))

\* kwargs['imports'] of MigrationWriter.get_kwargs
StripSentinelImport(text) == Replace(text, "import " \o Sentinel \o "\n", "")

\* the import lines OperationWriter(operation).serialize() asks for on
\* account of the functions the operations of a record refer to
FunctionImports(h, operations) ==
    {"import " \o h.funcs[h.ops[o].code].module :
        o \in {o \in Range(operations) : h.ops[o].code # 0}}

\* the import lines the operations may need besides
SerializerImports ==
    {"import app.0007_something",
     "import import_export.migrations.0001_initial",
     "import datetime",
     "from django.db import models"}

\* the state of a process that has loaded the files fs
Loaded(fs) ==
    /\ files = fs
    /\ made_dirs = {}
    /\ graph = GraphNodes(fs)
    /\ disk = DiskMigrations(fs).disk
    /\ heap = DiskMigrations(fs).h
    /\ changes = <<>>
    /\ keys = <<>>
    /\ outcome = "idle"
    /\ counters = CurrentCounters(GraphNodes(fs))
    /\ runs = 0
    /\ scanned = <<>>
    /\ yielded = <<>>
    /\ writer = NoWriter

Init == \E f \in Flavours, n \in AppHistories, m \in LibHistories :
            Loaded(HistoryFiles(f, n, m))

\* the histories squashed: the database operation of the composite a
\* RunPython, the operation nested deepest not elidable
InitSquash ==
    \E f \in {g \in Flavours : g.k5 = "RunPython" /\ ~g.e6},
       n \in AppHistories, m \in LibHistories :
        Loaded(HistoryFiles(f, n, m))

\* histories whose raw operations are all non-elidable RunPython
PlainFlavour ==
    [e1 |-> FALSE, e2 |-> FALSE, e5 |-> FALSE, e6 |-> FALSE,
     k1 |-> "RunPython", k5 |-> "RunPython"]

InitPlain == \E n \in AppHistories, m \in LibHistories :
                Loaded(HistoryFiles(PlainFlavour, n, m))

\* handle: load, squash, count the replaced migrations, write
Handle(e) ==
    /\ outcome \in {"idle", "written"}
    /\ runs < MaxRuns
    /\ runs' = runs + 1
    /\ scanned' = <<>>
    /\ yielded' = <<>>
    /\ writer' = NoWriter
    /\ IF GraphIsCyclic(files)
       THEN \* MigrationLoader raises CircularDependencyError
            /\ outcome' = "CircularDependencyError"
            /\ UNCHANGED <<files, made_dirs, graph, disk, heap, changes, keys, counters>>
       ELSE LET loaded == DiskMigrations(files)
                nodes == GraphNodes(files)
                base == Len(loaded.h.ops)
                h0 == [loaded.h EXCEPT
                          !.ops = EngineObjects(@, SumOver(e.keys, e.n))]
                detected == DetectChanges(EngineMigrations(e, base))
                squashed == squash(files, nodes, loaded.disk, h0,
                                   detected.migrations, e.keys, "")
            IN /\ graph' = nodes
               /\ disk' = loaded.disk
               /\ counters' = CurrentCounters(nodes)
               /\ keys' = e.keys
               /\ IF detected.error
                  THEN /\ outcome' = "KeyError"
                       /\ heap' = h0
                       /\ changes' = detected.migrations
                       /\ UNCHANGED <<files, made_dirs>>
                  ELSE /\ heap' = squashed.h
                       /\ changes' = squashed.migrations
                       /\ IF squashed.error
                          THEN /\ outcome' = "AttributeError"
                               /\ UNCHANGED <<files, made_dirs>>
                          ELSE IF ~ReachesWrite(squashed.migrations)
                          THEN /\ outcome' = "CommandError"
                               /\ UNCHANGED <<files, made_dirs>>
                          ELSE /\ outcome' = "written"
                               /\ files' = write_migration_files(
                                              files, squashed.h, squashed.migrations,
                                              WriteOrder(squashed.migrations, e.keys))
                               /\ made_dirs' = made_dirs \cup Range(e.keys)

Run == \E e \in EngineChoices : Handle(e)

\* the first invocation of the command
FirstRun == runs = 0 /\ Run

\* all_custom_operations applied to a list of operations of the loaded
\* records: a record's own list, or a list nested in a composite
Classify ==
    \E operations \in {disk[id].operations : id \in DOMAIN disk}
                      \cup {heap.ops[o].state_operations : o \in DOMAIN heap.ops}
                      \cup {heap.ops[o].database_operations : o \in DOMAIN heap.ops} :
        /\ scanned' = operations
        /\ yielded' = all_custom_operations(heap.ops, operations)
        /\ UNCHANGED <<files, made_dirs, graph, disk, heap, changes, keys, outcome,
                       counters, runs, writer>>

\* MigrationWriter(migration, include_header).as_string() for a record
\* handle writes, `serialized` being the import lines its operations need
\* apart from those of their functions; a behaviour follows one writer
Render(ref, serialized) ==
    /\ outcome = "written"
    /\ ~writer.used
    /\ ref \in Refs(changes)
    /\ LET m == changes[ref[1]][ref[2]]
           setting == \E k \in 1..Len(m.dependencies) :
                          Identity(changes, m.dependencies[k])[1] = "__setting__"
           required == serialized \cup FunctionImports(heap, m.operations)
                       \cup (IF setting THEN {"from django.conf import settings"} ELSE {})
           taken == MigrationImportLines(required)
           migration_imports == {MigrationImportOf(line) : line \in taken}
           imports == MergedImports(required \ taken)
           code == SelectSeq(m.operations, LAMBDA o : heap.ops[o].kind = "RunPython")
       IN \E sorted_imports \in SortedImports(imports) :
             writer' = [used |-> TRUE,
                        needs_manual_porting |-> taken # {},
                        required |-> required,
                        imports |-> StripSentinelImport(
                                        ImportsBlock(sorted_imports, migration_imports)),
                        functions |-> [k \in 1..Len(code) |->
                                          heap.funcs[heap.ops[code[k]].code].name]]
    /\ UNCHANGED <<files, made_dirs, graph, disk, heap, changes, keys, outcome,
                   counters, runs, scanned, yielded>>

Rendering == \E ref \in Refs(changes), serialized \in SUBSET SerializerImports :
                Render(ref, serialized)

Next == FirstRun

\* one invocation
Spec == InitSquash /\ [][Next]_vars

\* successive invocations, each loading what the one before wrote
SpecRerun == InitPlain /\ [][Run]_vars

\* the classifier alone, over the operation lists of any history
SpecClassifier == Init /\ [][Classify]_vars

\* one invocation and the rendering of the records it writes
SpecWriter == InitPlain /\ [][FirstRun \/ Rendering]_vars

(***************************************************************************)
(* Vocabulary of the properties.                                           *)
(***************************************************************************)
\* squash returned its mapping to handle
Returned == outcome \in {"CommandError", "written"}

\* the step is an invocation of the command that got past the loader
Invocation == runs' = runs + 1 /\ outcome' # "CircularDependencyError"

\* the existing nodes of an app in the graph of the run
Existing(a) == {g \in graph : g[1] = a}

\* the ordinal of a record name: its four-character prefix read as a number
Ordinal(name) == IntOf(SubSeq(name, 1, 4))

\* the greatest ordinal among the existing nodes of an app, 0 without any
MaxOrdinal(a) ==
    IF Existing(a) = {} THEN 0
    ELSE CHOOSE m \in {Ordinal(g[2]) : g \in Existing(a)} :
            \A g \in Existing(a) : Ordinal(g[2]) <= m

IsRaw(o) == heap.ops[o].kind \in RawKinds

RECURSIVE Nodes(_, _, _)
\* the operations nested in a list, each with its path: the position in
\* the list, then 1 for a state list or 2 for a database list and the
\* position in it, and so on
Nodes(ops, operations, path) ==
    UNION {LET o == operations[i]
               here == Append(path, i)
           IN {[path |-> here, op |-> o]}
              \cup Nodes(ops, ops[o].state_operations, Append(here, 1))
              \cup Nodes(ops, ops[o].database_operations, Append(here, 2))
           : i \in 1..Len(operations)}

IsProperPrefix(p, q) == Len(p) < Len(q) /\ SubSeq(q, 1, Len(p)) = p

\* p comes before q in pre-order
Before(p, q) ==
    \/ IsProperPrefix(p, q)
    \/ \E k \in 1..Min2(Len(p), Len(q)) :
          /\ p[k] < q[k]
          /\ \A j \in 1..(k - 1) : p[j] = q[j]

\* the raw operations of a list that are not elidable and lie under no
\* elidable composite, as nodes
Survivors(ops, operations) ==
    LET all == Nodes(ops, operations, <<>>)
    IN {n \in all :
           /\ ops[n.op].kind \in RawKinds
           /\ ~ops[n.op].elidable
           /\ \A a \in all : IsProperPrefix(a.path, n.path) => ~ops[a.op].elidable}

RECURSIVE InPreOrder(_)
\* the operations of a set of nodes, in pre-order
InPreOrder(S) ==
    IF S = {} THEN <<>>
    ELSE LET first == CHOOSE n \in S : \A m \in S \ {n} : Before(n.path, m.path)
         IN <<first.op>> \o InPreOrder(S \ {first})

\* what the rescue owes an app: the survivors of its replaced records,
\* records in replaces order
RECURSIVE Owed(_)
Owed(ids) ==
    IF Len(ids) = 0 THEN <<>>
    ELSE InPreOrder(Survivors(heap.ops, disk[ids[1]].operations)) \o Owed(Tail(ids))

RECURSIVE IsSubsequence(_, _)
IsSubsequence(s, t) ==
    IF Len(s) = 0 THEN TRUE
    ELSE IF Len(t) = 0 THEN FALSE
    ELSE IF s[1] = t[1] THEN IsSubsequence(Tail(s), Tail(t))
    ELSE IsSubsequence(s, Tail(t))

Occurrences(o, operations) == Cardinality({k \in 1..Len(operations) : operations[k] = o})

\* the operations of a new record after those the diff engine gave it
AfterEngine(m) == SubSeq(m.operations, 2, Len(m.operations))

(***************************************************************************)
(* C1.  Renaming: the i-th new record of a module is named with the        *)
(* ordinal maxOrdinal + i (i counted from one), "_" and the suffix; so     *)
(* the new records of a module have pairwise distinct names and every new  *)
(* ordinal is above every existing one.                                    *)
(***************************************************************************)
C1_Numbering ==
    Returned =>
        \A a \in DOMAIN changes :
            /\ \A i \in 1..Len(changes[a]) :
                  /\ changes[a][i].name = Format04i(MaxOrdinal(a) + i) \o "_squashed"
                  /\ \A g \in Existing(a) : Ordinal(changes[a][i].name) > Ordinal(g[2])
            /\ \A i, j \in 1..Len(changes[a]) :
                  i # j => changes[a][i].name # changes[a][j].name

(***************************************************************************)
(* C2.  Replaces: after squash every new record of a module has replaces   *)
(* equal to the identity-sorted list of all nodes of that module in the    *)
(* existing graph, no node of another module, the same for each record.    *)
(***************************************************************************)
C2_Replaces ==
    Returned =>
        \A a \in DOMAIN changes : \A i \in 1..Len(changes[a]) :
            LET r == changes[a][i].replaces
            IN /\ Range(r) = Existing(a)
               /\ \A k \in 1..(Len(r) - 1) : IdLess(r[k], r[k + 1])
               /\ r = changes[a][1].replaces

\* two records of app, each replacing both existing records, beside lib
C2_Witness ==
    /\ Returned
    /\ DOMAIN changes = {"app", "lib"}
    /\ Len(changes["app"]) = 2
    /\ Len(changes["app"][2].replaces) = 2
    /\ Existing("lib") # {}

(***************************************************************************)
(* C3.  Rescue: squash completes without error, and every raw operation    *)
(* of a replaced record of a module that is not elidable (and not under    *)
(* an elidable composite) is among the operations of the module's last     *)
(* new record, after the engine's, in the original relative order.         *)
(***************************************************************************)
C3_Rescue ==
    /\ outcome # "AttributeError"
    /\ Returned =>
          \A a \in DOMAIN changes :
              LET last == changes[a][Len(changes[a])]
              IN IsSubsequence(Owed(last.replaces), AfterEngine(last))

(***************************************************************************)
(* C4.  Repeated runs: a run that follows a run which wrote records for a  *)
(* module names its record for that module with the earlier run's          *)
(* pre-squash maximum + 2, and no run gives a record a (module, ordinal)   *)
(* that a file on disk already has.                                        *)
(***************************************************************************)
C4_NoReuse ==
    [][(Invocation /\ outcome' = "written") =>
          /\ \A a \in DOMAIN changes' : \A i \in 1..Len(changes'[a]) :
                <<a, Ordinal(changes'[a][i].name)>> \notin
                    {<<id[1], Ordinal(id[2])>> : id \in DOMAIN files}
          /\ outcome = "written" =>
                \A a \in DOMAIN changes' \cap DOMAIN changes :
                    \A i \in 1..Len(changes'[a]) :
                        changes'[a][i].name = Format04i(counters[a] + 2) \o "_squashed"
      ]_vars

(***************************************************************************)
(* C5.  squash leaves the loaded records as they were loaded: the same     *)
(* operation list, every operation the same payload, every payload the     *)
(* same module attribution, never the sentinel.                            *)
(***************************************************************************)
C5_LoadedUnchanged ==
    [][Invocation =>
          LET loaded == DiskMigrations(files)
          IN \A id \in DOMAIN loaded.disk :
                /\ disk'[id].operations = loaded.disk[id].operations
                /\ \A n \in Nodes(loaded.h.ops, loaded.disk[id].operations, <<>>) :
                      /\ heap'.ops[n.op] = loaded.h.ops[n.op]
                      /\ heap'.ops[n.op].code # 0 =>
                            /\ heap'.funcs[heap'.ops[n.op].code].module # Sentinel
                            /\ heap'.funcs[heap'.ops[n.op].code].module
                                  = loaded.disk[id].module
      ]_vars

(***************************************************************************)
(* C6.  Nothing to squash: when the replaces lists of the mapping squash   *)
(* returned are all empty, handle raises CommandError and writes no file   *)
(* and makes no directory; it writes only when some record replaces        *)
(* something.                                                              *)
(***************************************************************************)
C6_NothingToSquash ==
    [][Invocation =>
          LET nothing == \A r \in Refs(changes') :
                            changes'[r[1]][r[2]].replaces = <<>>
          IN /\ (Returned' /\ nothing) =>
                   (outcome' = "CommandError" /\ files' = files /\ made_dirs' = made_dirs)
             /\ (Returned' /\ ~nothing) => outcome' = "written"
             /\ (files' # files \/ made_dirs' # made_dirs) => (Returned' /\ ~nothing)
      ]_vars

\* a mapping with records, none of which replaces anything
C6_Witness ==
    /\ outcome = "CommandError"
    /\ Refs(changes) # {}
    /\ graph # {}

(***************************************************************************)
(* C7.  After squash no new record depends on a record of its own          *)
(* identity.                                                               *)
(***************************************************************************)
C7_NoSelfDependency ==
    Returned =>
        \A r \in Refs(changes) :
            \A k \in 1..Len(changes[r[1]][r[2]].dependencies) :
                Identity(changes, changes[r[1]][r[2]].dependencies[k])
                    # Identity(changes, r)

(***************************************************************************)
(* C8.  Manual porting: a required line "import X.<component starting      *)
(* with a digit>" is not in the import block and its module is listed in   *)
(* the comment block; every other required line stays in the import block  *)
(* (the models import as merged, the sentinel import apart);               *)
(* needs_manual_porting tells whether there was such a line.               *)
(***************************************************************************)
\* the module path of an "import X" line has a later component that
\* starts with a digit
HasDigitComponent(line) ==
    /\ StartsWith(line, "import ")
    /\ LET parts == Split(SubSeq(line, 8, Len(line)), ".")
       IN \E k \in 2..Len(parts) : Len(parts[k]) > 0 /\ IsDigit(Ch(parts[k], 1))

\* the lines of the import block: those before the first empty line
ImportBlockOf(text) ==
    LET lines == Split(text, "\n")
        stop == CHOOSE k \in 1..Len(lines) :
                    lines[k] = "" /\ \A j \in 1..(k - 1) : lines[j] # ""
    IN {lines[k] : k \in 1..(stop - 1)}

\* what the comment block lists: its lines after the three of the header
ListedIn(text) ==
    LET at == Find(text, ManualPortingHeader, 1)
    IN IF at = 0 THEN {}
       ELSE LET listed == Split(SubSeq(text, at + Len(ManualPortingHeader) - 2,
                                       Len(text)), "\n")
            IN {SubSeq(listed[k], 3, Len(listed[k])) : k \in 1..Len(listed)}

C8_ManualPorting ==
    writer.used =>
        LET ported == {l \in writer.required : HasDigitComponent(l)}
            block == ImportBlockOf(writer.imports)
        IN /\ \A l \in ported :
                 /\ l \notin block
                 /\ SubSeq(l, 8, Len(l)) \in ListedIn(writer.imports)
           /\ \A l \in writer.required \ ported :
                 \/ l \in block
                 \/ l = "import " \o Sentinel
                 \/ /\ l = "from django.db import models"
                    /\ "from django.db import migrations, models" \in block
           /\ writer.needs_manual_porting <=> (ported # {})

(***************************************************************************)
(* C9.  all_custom_operations yields exactly the raw operations that are   *)
(* not elidable and lie under no elidable composite, in pre-order (a       *)
(* composite's state list before its database list), never a composite or  *)
(* a schema operation; it changes nothing, so traversing again yields the  *)
(* same.                                                                   *)
(***************************************************************************)
C9_Classifier ==
    /\ yielded = InPreOrder(Survivors(heap.ops, scanned))
    /\ \A k \in 1..Len(yielded) : IsRaw(yielded[k]) /\ ~heap.ops[yielded[k]].elidable
    /\ all_custom_operations(heap.ops, scanned) = yielded

\* a list with a raw operation at the top, one in a nested state list and
\* one in a database list, all yielded
C9_Witness ==
    /\ Len(scanned) = 2
    /\ Len(yielded) = 3
    /\ yielded[1] = scanned[1]
    /\ \E o \in DOMAIN heap.ops : heap.ops[o].database_operations = <<yielded[3]>>

(***************************************************************************)
(* C10.  Rescue does not duplicate: every raw operation the rescue owes a  *)
(* module occurs exactly once in the operations of the module's last new   *)
(* record and in no other new record.                                      *)
(***************************************************************************)
C10_NoDuplicates ==
    Returned =>
        \A a \in DOMAIN changes :
            LET n == Len(changes[a])
            IN \A o \in Range(Owed(changes[a][n].replaces)) :
                  /\ Occurrences(o, changes[a][n].operations) = 1
                  /\ \A r \in Refs(changes) \ {<<a, n>>} :
                        Occurrences(o, changes[r[1]][r[2]].operations) = 0
=============================================================================
